---- MODULE Spec2Model ----
(***************************************************************************)
(* Model of the open62541 Rust bridge: the client builder and its logger   *)
(* bridge (src/src/client.rs), the raw DataSource wrapper                  *)
(* (src/src/ua/data_types/data_source.rs) and the two simulated CPU        *)
(* temperature data sources (src/examples).                                *)
(*                                                                         *)
(* f32 values in [32, 64) are multiples of 2^-18; they are kept as the     *)
(* integer number of such units ("ulps"), and f32 addition is modelled     *)
(* with IEEE round-to-nearest-even on the exact sum.                       *)
(***************************************************************************)
EXTENDS Integers, Sequences, FiniteSets, TLC

VARIABLES
    \* ---- client.rs ----
    state,          \* lifecycle state of each native client handle
    pc,             \* position inside ClientBuilder::default (index into DefaultBody)
    logger,         \* config.logger of each handle: [log, clear, context]
    oldLogger,      \* logger the native library put there at allocation
    clearCalls,     \* teardown calls made so far: sequence of <<callback, context>>
    atInstall,      \* teardown calls that had been made when the bridge fields were written
    atDefaults,     \* logger that UA_ClientConfig_setDefault found
    endpoint,       \* endpoint URL a handle was connected with
    connectUrl,     \* endpoint URL given to connect
    nativeConnects, \* number of UA_Client_connect calls made on the handle
    nativeStatus,   \* status that UA_Client_connect returned
    connectResult,  \* what ClientBuilder::connect returned
    clients,        \* handles wrapped in a live Client value
    records,        \* records emitted through the `log` crate
    lastCall,       \* arguments of the last log_c call
    \* ---- data_source.rs ----
    supplied,       \* arguments given to DataSource::new (<<>> before the call)
    ds,             \* the DataSource value (<<>> when there is none)
    clones,         \* clones made of it
    innerSeen,      \* what inner() returned last
    raw,            \* what into_raw() returned
    \* ---- examples/cpu_temperature_data_source.rs ----
    CPU_TEMPERATURE,
    INCREASING,
    temperature,    \* ControllerDataSource.temperature
    published,      \* value handed to context.set_variant by each read
    numReads,
    numWrites,
    lastStatus,     \* result of the last read or write
    prevTemp,       \* CPU_TEMPERATURE before the last read
    \* ---- examples/data_source_callback.rs ----
    RAW_CPU_TEMPERATURE,
    rawReads,
    rawPrev,
    rawPeaked,      \* the raw example's temperature has reached 48.5
    rawStatus       \* status returned by the last raw callback

clientVars == <<state, pc, logger, oldLogger, clearCalls, atInstall, atDefaults,
                endpoint, connectUrl, nativeConnects, nativeStatus, connectResult,
                clients>>
logVars == <<records, lastCall>>
wrapVars == <<supplied, ds, clones, innerSeen, raw>>
ctrlVars == <<CPU_TEMPERATURE, INCREASING, temperature, published, numReads,
              numWrites, lastStatus, prevTemp>>
rawVars == <<RAW_CPU_TEMPERATURE, rawReads, rawPrev, rawPeaked, rawStatus>>
vars == <<clientVars, logVars, wrapVars, ctrlVars, rawVars>>

\* ------------------------------------------------------------------ bounds
MaxHandles == 2
MaxRecords == 1
MaxMsgLen == 2
MaxClones == 3
MaxReads == 210
MaxWrites == 2
MaxRawReads == 110

Handles == 1..MaxHandles

\* ------------------------------------------------------------ status codes
Good == "Good"
BadInternalError == "BadInternalError"
ConnectStatuses == {Good, "BadConnectionRejected", "BadTimeout"}
SetDefaultStatuses == {Good, "BadOutOfMemory"}

\* =========================================================== client.rs
NoLogger == [log |-> "none", clear |-> "none", context |-> "null"]

\* Loggers a freshly allocated native client may carry (library-version
\* dependent): none, a logger without teardown, a logger with teardown.
NativeLoggers ==
    { NoLogger,
      [log |-> "UA_Log_Stdout_log", clear |-> "none", context |-> "null"],
      [log |-> "UA_Log_Stdout_log", clear |-> "UA_Log_Stdout_clear", context |-> "ctx"] }

NativeDefaultLogger ==
    [log |-> "UA_Log_Stdout_log", clear |-> "UA_Log_Stdout_clear", context |-> "ctx"]

BridgeLogger == [log |-> "log_c", clear |-> "none", context |-> "null"]

DefaultBody_swapped == <<"setDefault", "reset", "install">>

\* The statements of ClientBuilder::default after the handle is allocated.
DefaultBody == <<"reset", "install", "setDefault">>

AtStep(h, s) ==
    /\ state[h] = "Unconfigured"
    /\ pc[h] \in 1..Len(DefaultBody)
    /\ DefaultBody[pc[h]] = s

\* state of the handle once the statement at pc[h] has run
StateAfterStep(h) ==
    IF pc[h] = Len(DefaultBody) THEN "Configured" ELSE "Unconfigured"

\* Dropping the ua::Client releases the native handle, which tears down the
\* logger that is installed at that time.
DropCalls(h) ==
    IF logger[h].clear # "none"
    THEN Append(clearCalls[h], <<logger[h].clear, logger[h].context>>)
    ELSE clearCalls[h]

\* let mut inner = ua::Client::default();
ClientNew(h) ==
    /\ state[h] = "Unallocated"
    /\ \E lg \in NativeLoggers :
        /\ logger' = [logger EXCEPT ![h] = lg]
        /\ oldLogger' = [oldLogger EXCEPT ![h] = lg]
    /\ state' = [state EXCEPT ![h] = "Unconfigured"]
    /\ pc' = [pc EXCEPT ![h] = 1]
    /\ UNCHANGED <<clearCalls, atInstall, atDefaults, endpoint, connectUrl,
                   nativeConnects, nativeStatus, connectResult, clients>>
    /\ UNCHANGED <<logVars, wrapVars, ctrlVars, rawVars>>

ResetCalls_always(h) ==
    Append(clearCalls[h], <<logger[h].clear, logger[h].context>>)

\* if let Some(clear) = config.logger.clear { clear(config.logger.context) }
ResetCalls(h) ==
    IF logger[h].clear # "none"
    THEN Append(clearCalls[h], <<logger[h].clear, logger[h].context>>)
    ELSE clearCalls[h]

ResetLogger(h) ==
    /\ AtStep(h, "reset")
    /\ clearCalls' = [clearCalls EXCEPT ![h] = ResetCalls(h)]
    /\ pc' = [pc EXCEPT ![h] = @ + 1]
    /\ state' = [state EXCEPT ![h] = StateAfterStep(h)]
    /\ UNCHANGED <<logger, oldLogger, atInstall, atDefaults, endpoint, connectUrl,
                   nativeConnects, nativeStatus, connectResult, clients>>
    /\ UNCHANGED <<logVars, wrapVars, ctrlVars, rawVars>>

\* config.logger.clear = None; .log = Some(log_c); .context = null
InstallLogger(h) ==
    /\ AtStep(h, "install")
    /\ logger' = [logger EXCEPT ![h] = BridgeLogger]
    /\ atInstall' = [atInstall EXCEPT ![h] = clearCalls[h]]
    /\ pc' = [pc EXCEPT ![h] = @ + 1]
    /\ state' = [state EXCEPT ![h] = StateAfterStep(h)]
    /\ UNCHANGED <<oldLogger, clearCalls, atDefaults, endpoint, connectUrl,
                   nativeConnects, nativeStatus, connectResult, clients>>
    /\ UNCHANGED <<logVars, wrapVars, ctrlVars, rawVars>>

\* UA_ClientConfig_setDefault installs its own logger only when none is set.
LoggerAfterDefaults(lg) ==
    IF lg.log = "none" THEN NativeDefaultLogger ELSE lg

\* let result = UA_ClientConfig_setDefault(config); assert!(result == GOOD);
SetDefault(h) ==
    /\ AtStep(h, "setDefault")
    /\ atDefaults' = [atDefaults EXCEPT ![h] = <<logger[h]>>]
    /\ \E result \in SetDefaultStatuses :
        IF result = Good
        THEN /\ logger' = [logger EXCEPT ![h] = LoggerAfterDefaults(logger[h])]
             /\ pc' = [pc EXCEPT ![h] = @ + 1]
             /\ state' = [state EXCEPT ![h] = StateAfterStep(h)]
             /\ UNCHANGED clearCalls
        ELSE \* the assertion fails; unwinding drops `inner`
             /\ state' = [state EXCEPT ![h] = "Panicked"]
             /\ clearCalls' = [clearCalls EXCEPT ![h] = DropCalls(h)]
             /\ UNCHANGED <<logger, pc>>
    /\ UNCHANGED <<oldLogger, atInstall, endpoint, connectUrl, nativeConnects,
                   nativeStatus, connectResult, clients>>
    /\ UNCHANGED <<logVars, wrapVars, ctrlVars, rawVars>>

\* ------------------------------------------------ ClientBuilder::connect
NUL == 0

\* Endpoint URLs (Rust strings, as sequences of code points).
EndpointUrls == { <<111>>, <<112>>, <<111, NUL>> }

HasNul_unchecked(s) == FALSE

\* CString::new(s) fails exactly when s contains a NUL.
HasNul(s) == \E i \in 1..Len(s) : s[i] = NUL

\* "Connecting to endpoint "
ConnectingPrefix ==
    <<67, 111, 110, 110, 101, 99, 116, 105, 110, 103, 32, 116, 111, 32,
      101, 110, 100, 112, 111, 105, 110, 116, 32>>

CanConnect_reusable(h) == state[h] \in {"Configured", "Connected", "Failed"}

\* connect(mut self, ..) takes the builder by value: only a built,
\* not yet consumed builder can be connected.
CanConnect(h) == state[h] = "Configured"

ConnectOutcome_lost(h, result) ==
    IF result # Good
    THEN [kind |-> "Err", code |-> BadInternalError]
    ELSE [kind |-> "Ok", handle |-> h]

\* if result != UA_STATUSCODE_GOOD { return Err(Error::new(result)); }
\* Ok(Client(self.0))
ConnectOutcome(h, result) ==
    IF result # Good
    THEN [kind |-> "Err", code |-> result]
    ELSE [kind |-> "Ok", handle |-> h]

Connect(h, url) ==
    /\ CanConnect(h)
    /\ connectUrl' = [connectUrl EXCEPT ![h] = <<url>>]
    /\ records' = Append(records, [level |-> "Info", text |-> ConnectingPrefix \o url])
    /\ IF HasNul(url)
       THEN \* CString::new(..).expect(..) panics; unwinding drops the builder
            /\ state' = [state EXCEPT ![h] = "Panicked"]
            /\ connectResult' = [connectResult EXCEPT ![h] = [kind |-> "Panic"]]
            /\ clearCalls' = [clearCalls EXCEPT ![h] = DropCalls(h)]
            /\ UNCHANGED <<endpoint, nativeConnects, nativeStatus, clients>>
       ELSE \E result \in ConnectStatuses :
            /\ nativeConnects' = [nativeConnects EXCEPT ![h] = @ + 1]
            /\ nativeStatus' = [nativeStatus EXCEPT ![h] = result]
            /\ connectResult' = [connectResult EXCEPT ![h] = ConnectOutcome(h, result)]
            /\ IF ConnectOutcome(h, result).kind = "Ok"
               THEN /\ state' = [state EXCEPT ![h] = "Connected"]
                    /\ endpoint' = [endpoint EXCEPT ![h] = <<url>>]
                    /\ clients' = clients \cup {h}
                    /\ UNCHANGED clearCalls
               ELSE \* the builder, and with it the native handle, is dropped
                    /\ state' = [state EXCEPT ![h] = "Failed"]
                    /\ clearCalls' = [clearCalls EXCEPT ![h] = DropCalls(h)]
                    /\ UNCHANGED <<endpoint, clients>>
    /\ UNCHANGED <<pc, logger, oldLogger, atInstall, atDefaults, lastCall>>
    /\ UNCHANGED <<wrapVars, ctrlVars, rawVars>>

\* ------------------------------------------ set_default_logger::log_c
NativeLevels == {"Trace", "Debug", "Info", "Warning", "Error", "Fatal"}

\* a level value outside the enumeration reaches the final else branch
LogLevels == NativeLevels \cup {"Unknown"}

\* Message bytes: 'A', the two bytes of U+00E9 (0xC3 0xA9), which are
\* invalid UTF-8 on their own, and 0xFF, which is never valid.
\* CStr::from_ptr stops at the first NUL, so a message holds none.
MsgBytes == {65, 195, 169, 255}

RECURSIVE SeqsUpTo(_, _)
SeqsUpTo(S, n) ==
    IF n = 0 THEN { <<>> }
    ELSE LET shorter == SeqsUpTo(S, n - 1)
         IN  shorter \cup { Append(q, x) : q \in shorter, x \in S }

Messages == SeqsUpTo(MsgBytes, MaxMsgLen)

ReplacementChar == 65533

IsContinuation(b) == b \in 128..191

\* CStr::to_string_lossy for one- and two-byte sequences: valid sequences
\* decode to their code point, every other byte becomes U+FFFD.
RECURSIVE ToStringLossy(_)
ToStringLossy(bytes) ==
    IF bytes = <<>> THEN <<>>
    ELSE LET b == bytes[1] IN
         IF b < 128 THEN <<b>> \o ToStringLossy(Tail(bytes))
         ELSE IF b \in 194..223 /\ Len(bytes) >= 2 /\ IsContinuation(bytes[2])
              THEN <<(b - 192) * 64 + (bytes[2] - 128)>> \o ToStringLossy(Tail(Tail(bytes)))
              ELSE <<ReplacementChar>> \o ToStringLossy(Tail(bytes))

Severity_fatal(level) ==
    IF level = "Fatal" THEN "Fatal"
    ELSE IF level = "Error" THEN "Error"
    ELSE IF level = "Warning" THEN "Warn"
    ELSE IF level = "Info" THEN "Info"
    ELSE IF level = "Debug" THEN "Debug"
    ELSE IF level = "Trace" THEN "Trace"
    ELSE "none"

\* the if/else chain of log_c; "none": no macro is invoked
Severity(level) ==
    IF level = "Fatal" THEN "Error"
    ELSE IF level = "Error" THEN "Error"
    ELSE IF level = "Warning" THEN "Warn"
    ELSE IF level = "Info" THEN "Info"
    ELSE IF level = "Debug" THEN "Debug"
    ELSE IF level = "Trace" THEN "Trace"
    ELSE "none"

LogC(level, msg) ==
    /\ Len(records) < MaxRecords
    /\ lastCall' = [level |-> level, msg |-> msg]
    /\ records' = IF Severity(level) = "none" THEN records
                  ELSE Append(records, [level |-> Severity(level), text |-> ToStringLossy(msg)])
    /\ UNCHANGED <<clientVars, wrapVars, ctrlVars, rawVars>>

\* ==================================================== data_source.rs
ReadPtrs == {"none", "read_a", "read_b"}
WritePtrs == {"none", "write_a", "write_b"}

\* DataSource(UA_DataSource { read, write })
DataSourceNew(read, write) == [read |-> read, write |-> write]

\* &self.0
Inner(d) == d

\* std::ptr::read(addr_of!(self.0))
IntoRawValue(d) == [read |-> d.read, write |-> d.write]

CloneOf_readOnly(d) == [read |-> d.read, write |-> "none"]

\* DataSource(UA_DataSource { read: self.0.read, write: self.0.write })
CloneOf(d) == [read |-> d.read, write |-> d.write]

DSNew(read, write) ==
    /\ supplied = <<>>
    /\ supplied' = <<[read |-> read, write |-> write]>>
    /\ ds' = <<DataSourceNew(read, write)>>
    /\ UNCHANGED <<clones, innerSeen, raw>>
    /\ UNCHANGED <<clientVars, logVars, ctrlVars, rawVars>>

DSInner ==
    /\ ds # <<>>
    /\ innerSeen' = <<Inner(ds[1])>>
    /\ UNCHANGED <<supplied, ds, clones, raw>>
    /\ UNCHANGED <<clientVars, logVars, ctrlVars, rawVars>>

\* clone(&self) of the original or of one of its clones
DSClone ==
    /\ Len(clones) < MaxClones
    /\ \E src \in {ds[i] : i \in 1..Len(ds)} \cup {clones[i] : i \in 1..Len(clones)} :
        clones' = Append(clones, CloneOf(src))
    /\ UNCHANGED <<supplied, ds, innerSeen, raw>>
    /\ UNCHANGED <<clientVars, logVars, ctrlVars, rawVars>>

\* into_raw(self) consumes the wrapper
DSIntoRaw ==
    /\ ds # <<>>
    /\ raw' = <<IntoRawValue(ds[1])>>
    /\ ds' = <<>>
    /\ UNCHANGED <<supplied, clones, innerSeen>>
    /\ UNCHANGED <<clientVars, logVars, ctrlVars, rawVars>>

\* ======================================================== f32 arithmetic
\* f32 values in [32, 64): value = ulps * 2^-18, ulps in [2^23, 2^24).
UlpsPerUnit == 262144
\* 0.1f32 = 13421773 * 2^-27; one ulp of [32, 64) is 512 * 2^-27.
TenthBits == 13421773
BitsPerUlp == 512

T_38_5 == 10092544
T_39_0 == 10223616
T_48_5 == 12713984

\* t + m * 2^-27, rounded to nearest, ties to even (the result stays in [32, 64))
F32Add(t, m) ==
    LET q == m \div BitsPerUlp
        r == m % BitsPerUlp
        up == (2 * r > BitsPerUlp) \/ (2 * r = BitsPerUlp /\ (t + q) % 2 = 1)
    IN  t + q + (IF up THEN 1 ELSE 0)

\* ---- f32 Display (to_string): shortest decimal that reads back as t ----
RECURSIVE DecimalDigits(_)
DecimalDigits(n) ==
    IF n < 10 THEN <<n>> ELSE Append(DecimalDigits(n \div 10), n % 10)

\* add one in the last place of a digit string; carry is TRUE when it overflows
RECURSIVE RoundUpDigits(_)
RoundUpDigits(digits) ==
    IF digits = <<>> THEN [digits |-> <<>>, carry |-> TRUE]
    ELSE LET n == Len(digits)
             init == SubSeq(digits, 1, n - 1)
         IN  IF digits[n] = 9 THEN RoundUpDigits(init)
             ELSE [digits |-> Append(init, digits[n] + 1), carry |-> FALSE]

\* Digit generation for the fraction r/s with rounding margin m/s on both sides.
RECURSIVE ShortestDigits(_, _, _, _, _)
ShortestDigits(r, m, s, even, acc) ==
    LET down == IF even THEN r <= m ELSE r < m
        up == IF even THEN r + m >= s ELSE r + m > s
    IN  IF down \/ up
        THEN IF up /\ (~down \/ 2 * r >= s)
             THEN RoundUpDigits(acc)
             ELSE [digits |-> acc, carry |-> FALSE]
        ELSE ShortestDigits((r * 10) % s, m * 10, s, even, Append(acc, (r * 10) \div s))

\* the characters of t.to_string()
F32ToString(t) ==
    LET int == t \div UlpsPerUnit
        frac == t % UlpsPerUnit
        res == ShortestDigits(2 * frac, 1, 2 * UlpsPerUnit, t % 2 = 0, <<>>)
        whole == IF res.carry THEN int + 1 ELSE int
        intChars == [i \in 1..Len(DecimalDigits(whole)) |-> 48 + DecimalDigits(whole)[i]]
        fracChars == [i \in 1..Len(res.digits) |-> 48 + res.digits[i]]
    IN  IF res.digits = <<>> THEN intChars ELSE intChars \o <<46>> \o fracChars

\* ============================== examples/cpu_temperature_data_source.rs
\* if CPU_TEMPERATURE >= 48.5 { INCREASING = false }
\* else if CPU_TEMPERATURE <= 38.5 { INCREASING = true }
Direction(t, inc) ==
    IF t >= T_48_5 THEN FALSE
    ELSE IF t <= T_38_5 THEN TRUE
    ELSE inc

ReadCpuTemperature_stale(t, inc) ==
    [temp |-> t, increasing |-> Direction(t, inc)]

\* if INCREASING { CPU_TEMPERATURE += 0.1 } else { CPU_TEMPERATURE -= 0.1 }
ReadCpuTemperature(t, inc) ==
    LET d == Direction(t, inc)
    IN  [temp |-> IF d THEN F32Add(t, TenthBits) ELSE F32Add(t, -TenthBits),
         increasing |-> d]

\* ua::String::new fails on a string that holds a NUL.
UaStringNew(str) ==
    IF HasNul(str) THEN [ok |-> FALSE] ELSE [ok |-> TRUE, value |-> str]

\* ControllerDataSource::read
ControllerRead ==
    /\ numReads < MaxReads
    /\ LET r == ReadCpuTemperature(CPU_TEMPERATURE, INCREASING)
           str == F32ToString(r.temp)
       IN  /\ CPU_TEMPERATURE' = r.temp
           /\ INCREASING' = r.increasing
           /\ temperature' = str
           /\ IF UaStringNew(str).ok
              THEN /\ published' = Append(published, UaStringNew(str).value)
                   /\ lastStatus' = [op |-> "read", status |-> Good]
              ELSE /\ published' = published
                   /\ lastStatus' = [op |-> "read", status |-> BadInternalError]
    /\ prevTemp' = CPU_TEMPERATURE
    /\ numReads' = numReads + 1
    /\ UNCHANGED numWrites
    /\ UNCHANGED <<clientVars, logVars, wrapVars, rawVars>>

WriteEffect_reset(t) == T_39_0

\* ControllerDataSource::write leaves the sensor alone
WriteEffect(t) == t

\* ControllerDataSource::write
ControllerWrite ==
    /\ numWrites < MaxWrites
    /\ CPU_TEMPERATURE' = WriteEffect(CPU_TEMPERATURE)
    /\ lastStatus' = [op |-> "write", status |-> "NotSupported"]
    /\ numWrites' = numWrites + 1
    /\ UNCHANGED <<INCREASING, temperature, published, numReads, prevTemp>>
    /\ UNCHANGED <<clientVars, logVars, wrapVars, rawVars>>

\* =================================== examples/data_source_callback.rs
\* let mut increasing = true; then the same two tests
RawDirection(t) ==
    IF t >= T_48_5 THEN FALSE
    ELSE IF t <= T_38_5 THEN TRUE
    ELSE TRUE

\* CPU_TEMPERATURE += INCREMENT or -= INCREMENT
RawReadCpuTemperature(t) ==
    IF RawDirection(t) THEN F32Add(t, TenthBits) ELSE F32Add(t, -TenthBits)

\* read_cpu_temperature_callback: read_cpu_temperature always returns Ok and
\* UA_TYPES_FLOAT is a valid index, so the callback returns GOOD
RawRead ==
    /\ rawReads < MaxRawReads
    /\ RAW_CPU_TEMPERATURE' = RawReadCpuTemperature(RAW_CPU_TEMPERATURE)
    /\ rawPrev' = RAW_CPU_TEMPERATURE
    /\ rawPeaked' = (rawPeaked \/ RAW_CPU_TEMPERATURE' >= T_48_5)
    /\ rawReads' = rawReads + 1
    /\ rawStatus' = [op |-> "read", status |-> Good]
    /\ UNCHANGED <<clientVars, logVars, wrapVars, ctrlVars>>

\* write_cpu_temperature_callback
RawWrite ==
    /\ rawStatus' = [op |-> "write", status |-> Good]
    /\ UNCHANGED <<RAW_CPU_TEMPERATURE, rawReads, rawPrev, rawPeaked>>
    /\ UNCHANGED <<clientVars, logVars, wrapVars, ctrlVars>>

\* ======================================================= specifications
Init ==
    /\ state = [h \in Handles |-> "Unallocated"]
    /\ pc = [h \in Handles |-> 0]
    /\ logger = [h \in Handles |-> NoLogger]
    /\ oldLogger = [h \in Handles |-> NoLogger]
    /\ clearCalls = [h \in Handles |-> <<>>]
    /\ atInstall = [h \in Handles |-> <<>>]
    /\ atDefaults = [h \in Handles |-> <<>>]
    /\ endpoint = [h \in Handles |-> <<>>]
    /\ connectUrl = [h \in Handles |-> <<>>]
    /\ nativeConnects = [h \in Handles |-> 0]
    /\ nativeStatus = [h \in Handles |-> "none"]
    /\ connectResult = [h \in Handles |-> [kind |-> "none"]]
    /\ clients = {}
    /\ records = <<>>
    /\ lastCall = [level |-> "none", msg |-> <<>>]
    /\ supplied = <<>>
    /\ ds = <<>>
    /\ clones = <<>>
    /\ innerSeen = <<>>
    /\ raw = <<>>
    /\ CPU_TEMPERATURE = T_39_0
    /\ INCREASING = TRUE
    /\ temperature = <<>>
    /\ published = <<>>
    /\ numReads = 0
    /\ numWrites = 0
    /\ lastStatus = [op |-> "none", status |-> "none"]
    /\ prevTemp = T_39_0
    /\ RAW_CPU_TEMPERATURE = T_38_5
    /\ rawReads = 0
    /\ rawPrev = T_38_5
    /\ rawPeaked = FALSE
    /\ rawStatus = [op |-> "none", status |-> "none"]

ClientNext ==
    \E h \in Handles :
        \/ ClientNew(h)
        \/ ResetLogger(h)
        \/ InstallLogger(h)
        \/ SetDefault(h)
        \/ \E url \in EndpointUrls : Connect(h, url)

LogNext == \E level \in LogLevels, msg \in Messages : LogC(level, msg)

WrapNext ==
    \/ \E r \in ReadPtrs, w \in WritePtrs : DSNew(r, w)
    \/ DSInner
    \/ DSClone
    \/ DSIntoRaw

ControllerNext == ControllerRead \/ ControllerWrite

TempNext == ControllerRead \/ RawRead \/ RawWrite

\* one client and the controller data source side by side
BridgeNext ==
    \/ ClientNew(1)
    \/ ResetLogger(1)
    \/ InstallLogger(1)
    \/ SetDefault(1)
    \/ \E url \in EndpointUrls : Connect(1, url)
    \/ ControllerRead

Next == ClientNext

Spec == Init /\ [][Next]_vars
SpecLog == Init /\ [][LogNext]_vars
SpecWrap == Init /\ [][WrapNext]_vars
SpecController == Init /\ [][ControllerNext]_vars
SpecTemp == Init /\ [][TempNext]_vars
SpecBridge == Init /\ [][BridgeNext]_vars

\* ============================================================ properties
IsBridge(lg) == lg.log = "log_c" /\ lg.clear = "none" /\ lg.context = "null"

BuildComplete(h) == pc[h] > Len(DefaultBody)

\* C1: in ClientBuilder::default the native defaults step always finds the
\* bridge already installed, and in every state after the build has
\* completed the configuration's logger is the bridge trampoline
\* (log = log_c, no teardown callback, null context).
C1_BridgeBeforeDefaults ==
    \A h \in Handles :
        /\ atDefaults[h] # <<>> => IsBridge(atDefaults[h][1])
        /\ BuildComplete(h) => IsBridge(logger[h])

\* a connected client whose native handle started out with a logger of its own
C1_Witness ==
    \E h \in Handles :
        /\ state[h] = "Connected"
        /\ oldLogger[h].log = "UA_Log_Stdout_log"
        /\ atDefaults[h] # <<>>
        /\ logger[h].log = "log_c"

\* C3: connect makes at most one native connect call; a non-Good status
\* comes back as an error carrying exactly that status and leaves no Client
\* value; Good comes back as a Client wrapping the same handle.
C3_ConnectResult ==
    \A h \in Handles :
        /\ nativeConnects[h] <= 1
        /\ nativeStatus[h] \notin {"none", Good} =>
              /\ connectResult[h].kind = "Err"
              /\ connectResult[h].code = nativeStatus[h]
              /\ nativeConnects[h] = 1
              /\ h \notin clients
              /\ state[h] # "Connected"
        /\ nativeStatus[h] = Good =>
              /\ connectResult[h].kind = "Ok"
              /\ connectResult[h].handle = h
              /\ nativeConnects[h] = 1
              /\ h \in clients
        /\ connectResult[h].kind \in {"Err", "Ok"} => nativeStatus[h] # "none"

C3_Witness ==
    \E h, g \in Handles :
        /\ connectResult[h] = [kind |-> "Err", code |-> "BadTimeout"]
        /\ connectResult[g] = [kind |-> "Ok", handle |-> g]

Rank(st) ==
    CASE st = "Unallocated" -> 0
      [] st = "Unconfigured" -> 1
      [] st = "Configured" -> 2
      [] OTHER -> 3

\* C4: a handle's lifecycle only moves forward; a native connect is only
\* ever made on a Configured handle, so a handle is connected at most once;
\* a Connected handle stays connected to the same endpoint and a Failed
\* handle stays Failed.
C4_Lifecycle ==
    [][\A h \in Handles :
          /\ Rank(state'[h]) >= Rank(state[h])
          /\ nativeConnects'[h] # nativeConnects[h] =>
                state[h] = "Configured" /\ nativeConnects[h] = 0
          /\ state[h] = "Connected" =>
                state'[h] = "Connected" /\ endpoint'[h] = endpoint[h]
          /\ state[h] = "Failed" => state'[h] = "Failed"]_vars

\* two clients, each connected to its own endpoint
C4_Witness ==
    \E h, g \in Handles :
        /\ state[h] = "Connected" /\ state[g] = "Connected"
        /\ endpoint[h] = << <<111>> >>
        /\ endpoint[g] = << <<112>> >>

BridgeInstalled(h) ==
    \E i \in 1..Len(DefaultBody) : DefaultBody[i] = "install" /\ pc[h] > i

OldTeardown(h) ==
    IF oldLogger[h].clear # "none"
    THEN << <<oldLogger[h].clear, oldLogger[h].context>> >>
    ELSE <<>>

\* C9: once the bridge's fields are written, the old logger's teardown
\* callback has been called exactly once with the old context if there was
\* one and not at all otherwise, that call was made before the fields were
\* written, the configuration holds the bridge (no teardown callback, null
\* context, log_c), and no further teardown call is ever made.
C9_TeardownOnce ==
    \A h \in Handles :
        BridgeInstalled(h) =>
            /\ atInstall[h] = OldTeardown(h)
            /\ clearCalls[h] = OldTeardown(h)
            /\ IsBridge(logger[h])

\* a handle that had a teardown callback, was bridged, failed to connect
\* and was dropped
C9_Witness ==
    \E h \in Handles :
        /\ state[h] = "Failed"
        /\ oldLogger[h].clear = "UA_Log_Stdout_clear"
        /\ clearCalls[h] = << <<"UA_Log_Stdout_clear", "ctx">> >>

\* ---- log_c ----
MappedSeverity ==
    [Trace |-> "Trace", Debug |-> "Debug", Info |-> "Info",
     Warning |-> "Warn", Error |-> "Error", Fatal |-> "Error"]

\* UTF-8 encoding of a string of code points below 65536
RECURSIVE Utf8Encode(_)
Utf8Encode(chars) ==
    IF chars = <<>> THEN <<>>
    ELSE LET c == chars[1]
             enc == IF c < 128 THEN <<c>>
                    ELSE IF c < 2048 THEN <<192 + (c \div 64), 128 + (c % 64)>>
                    ELSE <<224 + (c \div 4096), 128 + ((c \div 64) % 64), 128 + (c % 64)>>
         IN  enc \o Utf8Encode(Tail(chars))

RECURSIVE IsUtf8(_)
IsUtf8(bytes) ==
    \/ bytes = <<>>
    \/ bytes[1] < 128 /\ IsUtf8(Tail(bytes))
    \/ /\ Len(bytes) >= 2
       /\ bytes[1] \in 194..223
       /\ bytes[2] \in 128..191
       /\ IsUtf8(Tail(Tail(bytes)))

EmitsOneMapped ==
    /\ Len(records') = Len(records) + 1
    /\ SubSeq(records', 1, Len(records)) = records
    /\ records'[Len(records')].level = MappedSeverity[lastCall'.level]
    /\ records'[Len(records')].level # "Fatal"

\* C2 as stated: every call with one of the six native severities emits
\* exactly one record at the mapped severity whose text is the message,
\* byte for byte.
C2_TextUnchanged ==
    [][lastCall'.level \in NativeLevels =>
          /\ EmitsOneMapped
          /\ Utf8Encode(records'[Len(records')].text) = lastCall'.msg]_vars

\* C2 (amended): every call with one of the six native severities emits
\* exactly one record at the mapped severity (Fatal as Error, never Fatal);
\* the text is the message unchanged when the message is valid UTF-8, and
\* otherwise the message with U+FFFD in place of its invalid bytes.
C2_MappedSeverity ==
    [][lastCall'.level \in NativeLevels =>
          /\ EmitsOneMapped
          /\ IsUtf8(lastCall'.msg) =>
                Utf8Encode(records'[Len(records')].text) = lastCall'.msg
          /\ ~IsUtf8(lastCall'.msg) =>
                /\ Len(records'[Len(records')].text) <= Len(lastCall'.msg)
                /\ \E i \in 1..Len(records'[Len(records')].text) :
                      records'[Len(records')].text[i] = ReplacementChar]_vars

\* a Fatal call carrying U+00E9 was emitted as an Error record
C2_Witness ==
    /\ lastCall = [level |-> "Fatal", msg |-> <<195, 169>>]
    /\ records # <<>>
    /\ records[Len(records)] = [level |-> "Error", text |-> <<233>>]

\* ---- DataSource wrapper ----
\* C8: whatever read and write references DataSource::new was given, the
\* wrapper, every clone of it, the value seen through inner() and the value
\* returned by into_raw() hold exactly those references.
C8_PassThrough ==
    supplied # <<>> =>
        /\ \A i \in 1..Len(ds) : ds[i] = supplied[1]
        /\ \A i \in 1..Len(clones) : clones[i] = supplied[1]
        /\ \A i \in 1..Len(innerSeen) : innerSeen[i] = supplied[1]
        /\ \A i \in 1..Len(raw) : raw[i] = supplied[1]

\* a write-only data source, looked at, cloned twice and turned into raw
C8_Witness ==
    /\ supplied = << [read |-> "none", write |-> "write_a"] >>
    /\ Len(clones) >= 2
    /\ innerSeen # <<>>
    /\ raw # <<>>

\* ---- ControllerDataSource ----
\* the sensor after n more reads and nothing else (the first test makes the
\* argument a value before it is passed on; halving keeps the evaluation
\* shallow)
RECURSIVE ReadTimes(_, _)
ReadTimes(sensor, n) ==
    IF sensor.temp < 0 \/ n = 0 THEN sensor
    ELSE IF n = 1 THEN ReadCpuTemperature(sensor.temp, sensor.increasing)
    ELSE ReadTimes(ReadTimes(sensor, n \div 2), n - (n \div 2))

SensorAfter(n) == ReadTimes([temp |-> T_39_0, increasing |-> TRUE], n)

\* C5: every write on the read-only controller data source returns
\* NotSupported and leaves the stored temperature string and the sensor
\* (CPU_TEMPERATURE, INCREASING) as they were; the value each read produces
\* depends only on how many reads came before it, not on the writes.
C5_WriteNotSupported ==
    [][/\ numWrites' # numWrites =>
             /\ lastStatus' = [op |-> "write", status |-> "NotSupported"]
             /\ CPU_TEMPERATURE' = CPU_TEMPERATURE
             /\ INCREASING' = INCREASING
             /\ temperature' = temperature
             /\ published' = published
       /\ numReads' # numReads =>
             /\ CPU_TEMPERATURE' = SensorAfter(numReads').temp
             /\ INCREASING' = SensorAfter(numReads').increasing
             /\ published' = Append(published, F32ToString(SensorAfter(numReads').temp))]_vars

\* a read that follows two rejected writes
C5_Witness ==
    /\ numWrites >= 2
    /\ numReads >= 2
    /\ lastStatus = [op |-> "read", status |-> Good]
    /\ Len(published) = numReads
    /\ published[numReads] = F32ToString(CPU_TEMPERATURE)

\* "39.00", "39.10", "39.1", "39.199997"
Str_39_00 == <<51, 57, 46, 48, 48>>
Str_39_10 == <<51, 57, 46, 49, 48>>
Str_39_1 == <<51, 57, 46, 49>>
Str_39_199997 == <<51, 57, 46, 49, 57, 57, 57, 57, 55>>

\* C6 as stated: the first read publishes "39.00", the second "39.10".
C6_FirstReads ==
    /\ Len(published) >= 1 => published[1] = Str_39_00
    /\ Len(published) >= 2 => published[2] = Str_39_10

\* C6 (amended): the sensor steps before its value is taken and the value
\* is formatted with the shortest f32 representation: the first read
\* publishes "39.1", the second "39.199997".
C6_FirstReadsActual ==
    /\ Len(published) >= 1 => published[1] = Str_39_1
    /\ Len(published) >= 2 => published[2] = Str_39_199997

C6_Witness ==
    /\ numReads = 2
    /\ Len(published) = 2
    /\ lastStatus = [op |-> "read", status |-> Good]

\* ---- values that cannot be represented natively ----
ContainsNul(str) == \E i \in 1..Len(str) : str[i] = 0

ConnectedWithNul(h) == connectUrl[h] # <<>> /\ ContainsNul(connectUrl[h][1])

\* C7 as stated: a connect whose endpoint URL holds a NUL, and a read that
\* publishes a string holding a NUL, return InternalError.
C7_InternalError ==
    /\ \A h \in Handles :
          ConnectedWithNul(h) =>
              connectResult[h] = [kind |-> "Err", code |-> BadInternalError]
    /\ (lastStatus.op = "read" /\ ContainsNul(temperature)) =>
          lastStatus.status = BadInternalError

\* C7 (amended): a data-source read returns BadInternalError exactly when the
\* string it would publish holds a NUL and Good otherwise; connect does not
\* return at all for an endpoint URL holding a NUL: it panics, as its
\* documentation says, before any native call is made, and no Client
\* exists afterwards.
C7_ConnectPanics ==
    /\ \A h \in Handles :
          /\ ConnectedWithNul(h) =>
                /\ connectResult[h] = [kind |-> "Panic"]
                /\ state[h] = "Panicked"
                /\ nativeConnects[h] = 0
                /\ h \notin clients
          /\ connectResult[h].kind = "Panic" => ConnectedWithNul(h)
    /\ lastStatus.op = "read" =>
          lastStatus.status = (IF ContainsNul(temperature) THEN BadInternalError ELSE Good)

C7_Witness ==
    /\ ConnectedWithNul(1)
    /\ state[1] = "Panicked"
    /\ lastStatus.op = "read"
    /\ numReads >= 1

\* ---- simulated temperature ----
\* 48.5f32 - 0.1f32, the f32 nearest to 48.4
T_48_4 == F32Add(T_48_5, -TenthBits)

\* a change of 0.1, to the precision of an f32 near 40
IsTenthStep(d) == d \in {26214, 26215, -26214, -26215}

\* C10: in both examples the temperature stays within 38.5 .. 48.5 and each
\* read changes it by one step of 0.1; in the raw-callback example it never
\* falls below 48.4 once it has reached 48.5.
C10_TemperatureRange ==
    /\ T_38_5 <= CPU_TEMPERATURE /\ CPU_TEMPERATURE <= T_48_5
    /\ T_38_5 <= RAW_CPU_TEMPERATURE /\ RAW_CPU_TEMPERATURE <= T_48_5
    /\ numReads > 0 => IsTenthStep(CPU_TEMPERATURE - prevTemp)
    /\ rawReads > 0 => IsTenthStep(RAW_CPU_TEMPERATURE - rawPrev)
    /\ rawPeaked => RAW_CPU_TEMPERATURE >= T_48_4

====
